---- MODULE Spec2Model ----
(***************************************************************************)
(* Model of IOTableAnalyzer (src/libs/io_analyzer.py): the code registry   *)
(* and the five coefficient matrices built by load_data, and the analysis  *)
(* operations run against them.                                            *)
(*                                                                         *)
(* Python values that serve as codes are tagged records: a str is         *)
(* [k |-> "str", s |-> <<characters>>, n |-> 0], an int is                 *)
(* [k |-> "int", s |-> <<>>, n |-> value], None is [k |-> "none", ...].    *)
(* Two such values are equal exactly when Python's == holds between them   *)
(* (a str never equals an int).  Floating-point numbers are modelled as    *)
(* exact rationals [num, den] in lowest terms; rounding is not modelled.   *)
(***************************************************************************)
EXTENDS Integers, Sequences, FiniteSets, TLC

VARIABLES
    coefficients,          \* self.coefficients: coeff_type -> matrix
    code_to_product,       \* self.code_to_product: basic code -> product name
    basic_to_subsector,    \* self.basic_to_subsector
    basic_to_code_h,       \* self.basic_to_code_h
    subsector_to_code_h,   \* self.subsector_to_code_h
    subsector_to_name,     \* self.subsector_to_name
    code_h_to_product_h,   \* self.code_h_to_product_h
    call,                  \* the operation in progress / last completed, with its arguments
    result,                \* what that operation returned (or the error it raised)
    callers,               \* concurrent callers of one analyzer: each one's position, call and result,
                           \* and whether another call was in progress when its call returned
    frames                 \* the activation records (local variables) of the calls in progress

data == <<coefficients, code_to_product, basic_to_subsector, basic_to_code_h,
          subsector_to_code_h, subsector_to_name, code_h_to_product_h>>
vars == <<coefficients, code_to_product, basic_to_subsector, basic_to_code_h,
          subsector_to_code_h, subsector_to_name, code_h_to_product_h, call, result,
          callers, frames>>
\* the part of the state only concurrent callers use
concurrent == <<callers, frames>>

----------------------------------------------------------------------------
(* Bounds of the checked inputs *)

\* demand_change ranges over the multiples of 500 from -500*MaxDemand to 500*MaxDemand
MaxDemand == 1
\* the loaded coefficient grids are rotated over the five matrices by 0..MaxShift
MaxShift == 1
\* the lists passed to compare_sectors and sensitivity_analysis have 0..MaxList elements
MaxList == 2
\* the texts given to format_code and format_subsector_code have 0..MaxCodeLen characters
MaxCodeLen == 4
\* the sheets 'codemap' that load_data is followed through have 1..MaxRows rows
MaxRows == 3

----------------------------------------------------------------------------
(* Python values *)

PyStr(chars) == [k |-> "str", s |-> chars, n |-> 0]
PyInt(i) == [k |-> "int", s |-> <<>>, n |-> i]
None == [k |-> "none", s |-> <<>>, n |-> 0]

DigitChars == <<"0", "1", "2", "3", "4", "5", "6", "7", "8", "9">>
IsDigitChar(c) == \E i \in 1..10 : DigitChars[i] = c
DigitValue(c) == (CHOOSE i \in 1..10 : DigitChars[i] = c) - 1

RECURSIVE Decimal(_)
\* the decimal digits of a natural number
Decimal(i) == IF i < 10 THEN <<DigitChars[i + 1]>>
              ELSE Decimal(i \div 10) \o <<DigitChars[(i % 10) + 1]>>

\* str(code): the text of a str is itself, of an int its decimal form
str(v) == IF v.k = "str" THEN v.s
          ELSE IF v.k = "int"
               THEN (IF v.n < 0 THEN <<"-">> \o Decimal(0 - v.n) ELSE Decimal(v.n))
               ELSE <<"N", "o", "n", "e">>

RECURSIVE lstrip(_)
lstrip(chars) == IF chars # <<>> /\ Head(chars) = " " THEN lstrip(Tail(chars)) ELSE chars
RECURSIVE rstrip(_)
rstrip(chars) == IF chars # <<>> /\ chars[Len(chars)] = " "
                 THEN rstrip(SubSeq(chars, 1, Len(chars) - 1)) ELSE chars
\* str.strip()
strip(chars) == rstrip(lstrip(chars))

\* str.isdigit(): non-empty and every character a digit
isdigit(chars) == chars # <<>> /\ \A i \in 1..Len(chars) : IsDigitChar(chars[i])

RECURSIVE int(_)
\* int(s) for a string of digits
int(chars) == IF chars = <<>> THEN 0
              ELSE 10 * int(SubSeq(chars, 1, Len(chars) - 1)) + DigitValue(chars[Len(chars)])

\* Python truthiness, as tested by `if code_h:`
Truthy(v) == IF v.k = "int" THEN v.n # 0
             ELSE IF v.k = "str" THEN v.s # <<>>
             ELSE FALSE

----------------------------------------------------------------------------
(* Exact arithmetic on the numbers the program computes with *)

Abs(i) == IF i < 0 THEN 0 - i ELSE i

RECURSIVE GCD(_, _)
GCD(a, b) == IF b = 0 THEN a ELSE GCD(b, a % b)

\* the rational n/d (d > 0) in lowest terms
Rat(n, d) == LET g == GCD(Abs(n), d) IN [num |-> n \div g, den |-> d \div g]
Zero == Rat(0, 1)
RAdd(a, b) == Rat(a.num * b.den + b.num * a.den, a.den * b.den)
RMul(a, b) == Rat(a.num * b.num, a.den * b.den)
\* a / b for b # 0
RDiv(a, b) == IF b.num < 0 THEN Rat((0 - a.num) * b.den, a.den * (0 - b.num))
              ELSE Rat(a.num * b.den, a.den * b.num)
RAbs(a) == [num |-> Abs(a.num), den |-> a.den]
RLess(a, b) == a.num * b.den < b.num * a.den

\* a / b as floating point divides: infinite or not-a-number (den = 0) when b is zero,
\* and then above every number, below every number, or comparable with none
FloatDiv(a, b) ==
    IF b.num = 0
    THEN [num |-> IF a.num > 0 THEN 1 ELSE IF a.num < 0 THEN 0 - 1 ELSE 0, den |-> 0]
    ELSE RDiv(a, b)

RECURSIVE RSum(_)
\* sum([...]) of a list of numbers
RSum(xs) == IF xs = <<>> THEN Zero ELSE RAdd(RSum(SubSeq(xs, 1, Len(xs) - 1)), xs[Len(xs)])

----------------------------------------------------------------------------
(* load_data: code formatting *)

\* a slip: a zero put before every code of up to three digits
format_code_short(code) ==
    LET code_str == strip(str(code))
    IN  IF isdigit(code_str) /\ Len(code_str) <= 3
        THEN PyStr(<<"0">> \o code_str)
        ELSE PyStr(code_str)

\* format_code: the text of the code, with a leading zero when it is three digits
format_code(code) ==
    LET code_str == strip(str(code))
    IN  IF isdigit(code_str) /\ Len(code_str) = 3
        THEN PyStr(<<"0">> \o code_str)
        ELSE PyStr(code_str)

RECURSIVE ZeroPad(_, _)
ZeroPad(chars, width) == IF Len(chars) < width THEN ZeroPad(<<"0">> \o chars, width) ELSE chars
\* f"{code_int:03d}": at least three characters, the sign included
Format03d(i) == IF i < 0 THEN <<"-">> \o ZeroPad(Decimal(0 - i), 2) ELSE ZeroPad(Decimal(i), 3)

\* the text after an optional sign
Unsigned(chars) == IF chars # <<>> /\ Head(chars) \in {"+", "-"} THEN Tail(chars) ELSE chars

\* float(text) succeeds: digits with at most one decimal point, an optional sign and
\* blanks around (exponents, "inf", "nan" and "_" separators are left out)
IsFloatText(chars) ==
    LET body == Unsigned(strip(chars))
    IN  /\ \A i \in DOMAIN body : IsDigitChar(body[i]) \/ body[i] = "."
        /\ Cardinality({i \in DOMAIN body : body[i] = "."}) <= 1
        /\ \E i \in DOMAIN body : IsDigitChar(body[i])

\* int(float(text)): the integer part, truncated toward zero
IntOfFloatText(chars) ==
    LET stripped == strip(chars)
        body == Unsigned(stripped)
        whole == IF \E i \in DOMAIN body : body[i] = "."
                 THEN SubSeq(body, 1, (CHOOSE i \in DOMAIN body : body[i] = ".") - 1)
                 ELSE body
    IN  IF Head(stripped) = "-" THEN 0 - int(whole) ELSE int(whole)

\* format_subsector_code: int(float(code)) zero-padded to width 3; the text of
\* the code when it is no number
format_subsector_code(code) ==
    IF code.k = "int" THEN PyStr(Format03d(code.n))
    ELSE IF code.k = "str" /\ IsFloatText(code.s)
         THEN PyStr(Format03d(IntOfFloatText(code.s)))
         ELSE PyStr(strip(str(code)))

----------------------------------------------------------------------------
(* load_data: the registry and the matrices built from the sheets *)

\* the position of the last row of a sheet whose key is c
\* a slip: `setdefault`, the first row of a key kept and the later ones ignored
FirstRow(keys, c) == CHOOSE i \in DOMAIN keys : keys[i] = c /\ \A j \in DOMAIN keys : keys[j] = c => i <= j

LastRow(keys, c) == CHOOSE i \in DOMAIN keys : keys[i] = c /\ \A j \in DOMAIN keys : keys[j] = c => j <= i

\* a dict filled row by row (dict[keys[i]] = values[i]): a later row overwrites an earlier one
DictOfRows(keys, values) ==
    [c \in {keys[i] : i \in DOMAIN keys} |-> values[LastRow(keys, c)]]

\* the three basic-coded matrices: row and column labels through format_code
LoadBasicMatrix(sheet) ==
    [index   |-> [i \in DOMAIN sheet.index |-> format_code(sheet.index[i])],
     columns |-> [j \in DOMAIN sheet.columns |-> format_code(sheet.columns[j])],
     values  |-> sheet.values]

\* the two employment matrices: row and column labels through format_subsector_code
LoadJobMatrix(sheet) ==
    [index   |-> [i \in DOMAIN sheet.index |-> format_subsector_code(sheet.index[i])],
     columns |-> [j \in DOMAIN sheet.columns |-> format_subsector_code(sheet.columns[j])],
     values  |-> sheet.values]

BasicCoeffTypes == {"indirect_prod", "indirect_import", "value_added"}
JobCoeffTypes == {"jobcoeff", "directemploycoeff"}

LoadCoefficients(sheets) ==
    [t \in BasicCoeffTypes \cup JobCoeffTypes |->
        IF t \in BasicCoeffTypes THEN LoadBasicMatrix(sheets[t]) ELSE LoadJobMatrix(sheets[t])]

LoadCodeToProduct(basicmap) ==
    DictOfRows([i \in DOMAIN basicmap |-> format_code(basicmap[i].code)],
               [i \in DOMAIN basicmap |-> basicmap[i].product])

LoadSubsectorToName(subsectormap) ==
    DictOfRows([i \in DOMAIN subsectormap |-> format_subsector_code(subsectormap[i].code)],
               [i \in DOMAIN subsectormap |-> subsectormap[i].name])

LoadCodeHToProductH(codemap) ==
    DictOfRows([i \in DOMAIN codemap |-> codemap[i].code_h],
               [i \in DOMAIN codemap |-> codemap[i].product_h])

LoadBasicToCodeH(codemap) ==
    DictOfRows([i \in DOMAIN codemap |-> format_code(codemap[i].Basic)],
               [i \in DOMAIN codemap |-> codemap[i].code_h])

LoadBasicToSubsector(codemap) ==
    DictOfRows([i \in DOMAIN codemap |-> format_code(codemap[i].Basic)],
               [i \in DOMAIN codemap |-> format_subsector_code(codemap[i].Subsector)])

LoadSubsectorToCodeH(codemap) ==
    DictOfRows([i \in DOMAIN codemap |-> format_subsector_code(codemap[i].Subsector)],
               [i \in DOMAIN codemap |-> codemap[i].code_h])

----------------------------------------------------------------------------
(* The workbooks the analyzer is loaded from *)

\* sheet 'basicmap': two or three sectors, the third one 1000 or the two-digit 11
BasicmapRows ==
    << [code |-> PyInt(111),  product |-> "Crops"],
       [code |-> PyInt(2711), product |-> "Steel"],
       [code |-> PyInt(1000), product |-> "Food"],
       [code |-> PyInt(11),   product |-> "Rice"] >>
BasicmapSheets ==
    {SubSeq(BasicmapRows, 1, n) : n \in 2..3} \cup {<<BasicmapRows[1], BasicmapRows[2], BasicmapRows[4]>>}

\* category identifiers as found in column code_h
CodeHValues == {PyInt(0), PyInt(1), PyStr(<<>>), PyStr(<<"A">>)}

\* sheet 'codemap': sectors 0111 and 1000 share sub-sector 011
CodemapRows(h) ==
    << [Basic |-> PyInt(111),  Subsector |-> PyInt(11),  code_h |-> h,        product_h |-> "Agri"],
       [Basic |-> PyInt(2711), Subsector |-> PyInt(271), code_h |-> PyInt(1), product_h |-> "Manu"],
       [Basic |-> PyInt(1000), Subsector |-> PyInt(11),  code_h |-> PyInt(2), product_h |-> "Proc"] >>
CodemapSheets == {SubSeq(CodemapRows(h), 1, n) : h \in CodeHValues, n \in 2..3}

\* sheet 'subsectormap': sub-sector 1000 has no name
SubsectormapSheet ==
    << [code |-> PyInt(11),  name |-> "Farming"],
       [code |-> PyInt(271), name |-> "Metals"] >>

\* coefficient values, one grid a matrix
Grids ==
    << << <<Rat(2, 1),  Rat(1, 2),  Rat(0, 1)>>,
          <<Rat(-1, 1), Rat(1, 1),  Rat(1, 4)>>,
          <<Rat(1, 1),  Rat(-1, 1), Rat(3, 1)>> >>,
       << <<Rat(0, 1),  Rat(1, 1),  Rat(1, 1)>>,
          <<Rat(1, 2),  Rat(-2, 1), Rat(1, 1)>>,
          <<Rat(-1, 2), Rat(2, 1),  Rat(0, 1)>> >>,
       << <<Rat(1, 1),  Rat(3, 2),  Rat(-1, 1)>>,
          <<Rat(1, 1),  Rat(0, 1),  Rat(2, 1)>>,
          <<Rat(-3, 1), Rat(1, 4),  Rat(1, 2)>> >>,
       << <<Rat(1, 4),  Rat(-1, 1), Rat(2, 1)>>,
          <<Rat(3, 1),  Rat(1, 1),  Rat(-1, 2)>>,
          <<Rat(-1, 4), Rat(1, 2),  Rat(1, 1)>> >>,
       << <<Rat(-2, 1), Rat(2, 1),  Rat(1, 2)>>,
          <<Rat(0, 1),  Rat(3, 1),  Rat(1, 1)>>,
          <<Rat(2, 1),  Rat(-1, 4), Rat(-1, 1)>> >> >>

SheetOrder == <<"indirect_prod", "indirect_import", "value_added", "jobcoeff", "directemploycoeff">>
TypeIndex(t) == CHOOSE i \in DOMAIN SheetOrder : SheetOrder[i] = t

\* the basic-coded matrices are labelled with the three sectors of the sheet
\* 'basicmap', and with 1000 as the third where the sheet lists two
BasicLabels(basicmap) ==
    IF Len(basicmap) = 3 THEN [i \in 1..3 |-> basicmap[i].code]
    ELSE <<PyInt(111), PyInt(2711), PyInt(1000)>>
JobLabels == <<PyInt(11), PyInt(271), PyInt(1000)>>

\* the sheet of matrix t: three rows, the first ncols columns, grid number shift + t
CoeffSheet(t, labels, ncols, shift) ==
    LET g == Grids[((TypeIndex(t) + shift) % Len(Grids)) + 1]
    IN  [index   |-> labels,
         columns |-> SubSeq(labels, 1, ncols),
         values  |-> [i \in 1..3 |-> SubSeq(g[i], 1, ncols)]]

CoeffSheets(basicmap, nbasic, njob, shift) ==
    [t \in BasicCoeffTypes \cup JobCoeffTypes |->
        IF t \in BasicCoeffTypes THEN CoeffSheet(t, BasicLabels(basicmap), nbasic, shift)
        ELSE CoeffSheet(t, JobLabels, njob, shift)]

----------------------------------------------------------------------------
(* calculate_direct_effects *)

\* a raised exception, named after its message
Error(kind) == [status |-> "error", error |-> kind]

\* a display name is the list of the pieces of text it is put together from
Name(text) == <<text>>

HasColumn(m, code) == \E j \in DOMAIN m.columns : m.columns[j] = code
ColumnIndex(m, code) == CHOOSE j \in DOMAIN m.columns : m.columns[j] = code
HasRow(m, code) == \E i \in DOMAIN m.index : m.index[i] = code
RowIndex(m, code) == CHOOSE i \in DOMAIN m.index : m.index[i] = code

\* a slip: only the "significant" rows of the column kept, those with a coefficient other than zero
SignificantColumn(m, code) ==
    SelectSeq([i \in DOMAIN m.index |-> [code |-> m.index[i], value |-> m.values[i][ColumnIndex(m, code)]]],
              LAMBDA row : row.value # Zero)

\* selected_coeffs[code]: the column as a Series, one (row code, value) per row, in row order
Column(m, code) ==
    [i \in DOMAIN m.index |-> [code |-> m.index[i], value |-> m.values[i][ColumnIndex(m, code)]]]

\* results.sort(key=lambda x: abs(x['impact']), reverse=True): the place a stable
\* descending sort gives the entry at position i of a list with these keys
SortedPlace(keys, i) ==
    1 + Cardinality({j \in DOMAIN keys :
                        \/ RLess(keys[i], keys[j])
                        \/ (keys[j] = keys[i] /\ j < i)})

\* the list xs stably sorted by descending key
SortDescending(xs, keys) ==
    [p \in DOMAIN xs |-> xs[CHOOSE i \in DOMAIN xs : SortedPlace(keys, i) = p]]

\* a slip: the key without abs(), negative impacts sink to the end
SortBySignedImpact(results) ==
    SortDescending(results, [i \in DOMAIN results |-> results[i].impact])

SortByAbsImpact(results) ==
    SortDescending(results, [i \in DOMAIN results |-> RAbs(results[i].impact)])

TotalImpact(results) == RSum([i \in DOMAIN results |-> results[i].impact])

coeff_names ==
    [t \in BasicCoeffTypes \cup JobCoeffTypes |->
        CASE t = "indirect_prod"   -> "Indirect Production (I-Ad)^-1"
          [] t = "indirect_import" -> "Indirect Import"
          [] t = "value_added"     -> "Value-Added"
          [] t = "jobcoeff"        -> "Total Job Creation"
          [] OTHER                 -> "Direct Employment"]

\* a slip: the impact rounded down to whole billions
DirectImpactWholeUnits(coefficient, demand_change) ==
    Rat((coefficient.num * demand_change) \div (coefficient.den * 1000), 1)

\* a slip: `demand_change or 1000`, a demand change of zero taken as not given
DirectImpactDefaultDemand(coefficient, demand_change) ==
    RDiv(RMul(coefficient, Rat(IF demand_change = 0 THEN 1000 ELSE demand_change, 1)), Rat(1000, 1))

\* selected_coeffs[col] * demand_change / 1000 (basic-coded matrices)
DirectImpact(coefficient, demand_change) ==
    RDiv(RMul(coefficient, Rat(demand_change, 1)), Rat(1000, 1))

\* a slip: the employment impacts left in persons per million, the unit conversion forgotten
JobImpactUnscaled(coefficient, demand_change) ==
    RMul(coefficient, Rat(demand_change, 1))

\* selected_coeffs[col] * (demand_change / 1000) (employment matrices)
JobImpact(coefficient, demand_change) ==
    RMul(coefficient, RDiv(Rat(demand_change, 1), Rat(1000, 1)))

\* _calculate_job_effects, once the sub-sector column is known to exist: every row reported
JobEffectsResult(target_sector, subsector_code, demand_change, coeff_type, coeff_name) ==
    LET series == Column(coefficients[coeff_type], subsector_code)
        job_impacts == [i \in DOMAIN series |->
                          [code |-> series[i].code, value |-> JobImpact(series[i].value, demand_change)]]
        results == [i \in DOMAIN job_impacts |->
                      [sector_code |-> job_impacts[i].code,
                       sector_name |-> IF job_impacts[i].code \in DOMAIN subsector_to_name
                                       THEN Name(subsector_to_name[job_impacts[i].code])
                                       ELSE <<"Sub-sector ">> \o job_impacts[i].code.s,
                       impact      |-> job_impacts[i].value]]
        sorted == SortByAbsImpact(results)
    IN  [status               |-> "ok",
         target_sector        |-> target_sector,
         target_product       |-> code_to_product[target_sector],
         subsector_code       |-> subsector_code,
         demand_change        |-> demand_change,
         coeff_type           |-> coeff_type,
         coeff_name           |-> coeff_name,
         impacts              |-> sorted,
         total_impact         |-> TotalImpact(sorted),
         num_affected_sectors |-> Len(sorted)]

\* a slip: the employment column is looked up by the basic code when the matrix has such a column
calculate_job_effects_by_basic_code(target_sector, demand_change, coeff_type, coeff_name) ==
    IF target_sector \notin DOMAIN basic_to_subsector
    THEN Error("Sub-sector mapping not found for basic sector")
    ELSE LET key == IF HasColumn(coefficients[coeff_type], target_sector) THEN target_sector
                    ELSE basic_to_subsector[target_sector]
         IN  IF ~HasColumn(coefficients[coeff_type], key)
             THEN Error("Sub-sector column not found in coefficient matrix")
             ELSE JobEffectsResult(target_sector, key, demand_change, coeff_type, coeff_name)

\* a slip: without a sub-sector mapping the basic code itself is tried as the column key
calculate_job_effects_with_fallback(target_sector, demand_change, coeff_type, coeff_name) ==
    LET key == IF target_sector \in DOMAIN basic_to_subsector THEN basic_to_subsector[target_sector]
               ELSE target_sector
    IN  IF ~HasColumn(coefficients[coeff_type], key)
        THEN Error("Sub-sector column not found in coefficient matrix")
        ELSE JobEffectsResult(target_sector, key, demand_change, coeff_type, coeff_name)

\* _calculate_job_effects: the basic sector is mapped to its sub-sector first
calculate_job_effects(target_sector, demand_change, coeff_type, coeff_name) ==
    IF target_sector \notin DOMAIN basic_to_subsector
    THEN Error("Sub-sector mapping not found for basic sector")
    ELSE IF ~HasColumn(coefficients[coeff_type], basic_to_subsector[target_sector])
    THEN Error("Sub-sector column not found in coefficient matrix")
    ELSE JobEffectsResult(target_sector, basic_to_subsector[target_sector],
                          demand_change, coeff_type, coeff_name)

\* calculate_direct_effects for a basic-coded matrix, once the column is known to
\* exist: the rows with a registered product name are reported
BasicEffectsResult(final_target_sector, demand_change, coeff_type) ==
    LET series == Column(coefficients[coeff_type], final_target_sector)
        direct_impacts == [i \in DOMAIN series |->
                             [code |-> series[i].code, value |-> DirectImpact(series[i].value, demand_change)]]
        named == SelectSeq(direct_impacts, LAMBDA e : e.code \in DOMAIN code_to_product)
        results == [i \in DOMAIN named |->
                      [sector_code |-> named[i].code,
                       sector_name |-> Name(code_to_product[named[i].code]),
                       impact      |-> named[i].value]]
        sorted == SortByAbsImpact(results)
    IN  [status               |-> "ok",
         target_sector        |-> final_target_sector,
         target_product       |-> code_to_product[final_target_sector],
         demand_change        |-> demand_change,
         coeff_type           |-> coeff_type,
         coeff_name           |-> coeff_names[coeff_type],
         impacts              |-> sorted,
         total_impact         |-> TotalImpact(sorted),
         num_affected_sectors |-> Len(sorted)]

\* a slip: a missing column read as an empty Series instead of raising
calculate_basic_effects_empty_column(final_target_sector, demand_change, coeff_type) ==
    IF ~HasColumn(coefficients[coeff_type], final_target_sector)
    THEN [status               |-> "ok",
          target_sector        |-> final_target_sector,
          target_product       |-> code_to_product[final_target_sector],
          demand_change        |-> demand_change,
          coeff_type           |-> coeff_type,
          coeff_name           |-> coeff_names[coeff_type],
          impacts              |-> <<>>,
          total_impact         |-> Zero,
          num_affected_sectors |-> 0]
    ELSE BasicEffectsResult(final_target_sector, demand_change, coeff_type)

\* the part of calculate_direct_effects for the three basic-coded matrices
calculate_basic_effects(final_target_sector, demand_change, coeff_type) ==
    IF ~HasColumn(coefficients[coeff_type], final_target_sector)
    THEN Error("Column for sector not found in coefficient matrix")
    ELSE BasicEffectsResult(final_target_sector, demand_change, coeff_type)

\* the target in "the format that exists in the mapping": the argument itself when it
\* is a key of code_to_product, else its integer value; None when neither is a key
FinalTargetSector(target_sector) ==
    LET target_sector_int ==
            IF target_sector.k = "str" /\ isdigit(target_sector.s) THEN PyInt(int(target_sector.s))
            ELSE IF target_sector.k = "int" THEN target_sector
            ELSE None
    IN  IF target_sector \notin DOMAIN code_to_product /\ target_sector_int \notin DOMAIN code_to_product
        THEN None
        ELSE IF target_sector \in DOMAIN code_to_product THEN target_sector
        ELSE target_sector_int

\* calculate_direct_effects after its two argument checks: the branch on coeff_type
SelectedEffects(final_target_sector, demand_change, coeff_type) ==
    IF coeff_type \in {"jobcoeff", "directemploycoeff"}
    THEN calculate_job_effects(final_target_sector, demand_change, coeff_type, coeff_names[coeff_type])
    ELSE calculate_basic_effects(final_target_sector, demand_change, coeff_type)

\* a slip: an unknown sector answered with an empty result instead of raising
calculate_direct_effects_empty_result(target_sector, demand_change, coeff_type) ==
    IF FinalTargetSector(target_sector) = None
    THEN [status               |-> "ok",
          target_sector        |-> target_sector,
          target_product       |-> "",
          demand_change        |-> demand_change,
          coeff_type           |-> coeff_type,
          coeff_name           |-> "",
          impacts              |-> <<>>,
          total_impact         |-> Zero,
          num_affected_sectors |-> 0]
    ELSE IF coeff_type \notin DOMAIN coefficients
    THEN Error("Coefficient type not available")
    ELSE SelectedEffects(FinalTargetSector(target_sector), demand_change, coeff_type)

\* a slip: an unknown coefficient type replaced by the default type, as the menu layer does
calculate_direct_effects_default_type(target_sector, demand_change, coeff_type) ==
    IF FinalTargetSector(target_sector) = None
    THEN Error("Sector not found in data")
    ELSE SelectedEffects(FinalTargetSector(target_sector), demand_change,
                         IF coeff_type \notin DOMAIN coefficients THEN "indirect_prod" ELSE coeff_type)

calculate_direct_effects(target_sector, demand_change, coeff_type) ==
    IF FinalTargetSector(target_sector) = None
    THEN Error("Sector not found in data")
    ELSE IF coeff_type \notin DOMAIN coefficients
    THEN Error("Coefficient type not available")
    ELSE SelectedEffects(FinalTargetSector(target_sector), demand_change, coeff_type)

----------------------------------------------------------------------------
(* aggregate_to_code_h, calculate_effects_by_code_h, calculate_all_effects *)

\* the code_h looked up for one entry: the sub-sector mapping for an employment result
\* when the code is in it, else the basic mapping when the code is in it, else None
LookupCodeH(is_job_coefficient, sector_code) ==
    IF is_job_coefficient /\ sector_code \in DOMAIN subsector_to_code_h
    THEN subsector_to_code_h[sector_code]
    ELSE IF sector_code \in DOMAIN basic_to_code_h
    THEN basic_to_code_h[sector_code]
    ELSE None

\* `if code_h:` - the entry is accumulated only when its code_h is truthy
Accumulated(code_h) == Truthy(code_h)

aggregate_to_code_h(results) ==
    LET is_job_coefficient == "subsector_code" \in DOMAIN results
        looked_up == [i \in DOMAIN results.impacts |->
                        [code_h |-> LookupCodeH(is_job_coefficient, results.impacts[i].sector_code),
                         impact |-> results.impacts[i].impact]]
        kept == SelectSeq(looked_up, LAMBDA e : Accumulated(e.code_h))
        \* the keys of code_h_impacts in insertion order: the first entry of each category
        firsts == SelectSeq([i \in DOMAIN kept |-> i],
                            LAMBDA i : \A j \in 1..(i - 1) : kept[j].code_h # kept[i].code_h)
        members(h) == SelectSeq(kept, LAMBDA e : e.code_h = h)
        code_h_impacts ==
            [c \in DOMAIN firsts |->
                LET h == kept[firsts[c]].code_h
                IN  [code_h       |-> h,
                     product_h    |-> IF h \in DOMAIN code_h_to_product_h
                                      THEN Name(code_h_to_product_h[h])
                                      ELSE <<"Category ">> \o str(h),
                     impact       |-> TotalImpact(members(h)),
                     sector_count |-> Len(members(h))]]
        aggregated_results == SortByAbsImpact(code_h_impacts)
    IN  [status                  |-> "ok",
         target_sector           |-> results.target_sector,
         target_product          |-> results.target_product,
         demand_change           |-> results.demand_change,
         coeff_type              |-> results.coeff_type,
         coeff_name              |-> results.coeff_name,
         aggregation_level       |-> "code_h",
         impacts                 |-> aggregated_results,
         total_impact            |-> TotalImpact(aggregated_results),
         num_affected_categories |-> Len(aggregated_results)]

calculate_effects_by_code_h(target_sector, demand_change, coeff_type) ==
    LET basic_results == calculate_direct_effects(target_sector, demand_change, coeff_type)
    IN  IF basic_results.status = "error" THEN basic_results
        ELSE aggregate_to_code_h(basic_results)

coefficient_types == <<"indirect_prod", "indirect_import", "value_added", "jobcoeff", "directemploycoeff">>

\* one slot of all_results: the result, or None when the calculation raised
AllEffectsSlot(selected_sector, demand_change, coeff_type) ==
    LET results == calculate_direct_effects(selected_sector, demand_change, coeff_type)
    IN  IF results.status = "error" THEN None ELSE results

\* a slip: the first failing type aborts the batch
calculate_all_effects_abort(selected_sector, demand_change) ==
    IF \E i \in DOMAIN coefficient_types :
          calculate_direct_effects(selected_sector, demand_change, coefficient_types[i]).status = "error"
    THEN Error("Sector not found in data")
    ELSE [status            |-> "ok",
          coefficient_types |-> coefficient_types,
          all_results       |-> [t \in {coefficient_types[i] : i \in DOMAIN coefficient_types} |->
                                    calculate_direct_effects(selected_sector, demand_change, t)]]

calculate_all_effects(selected_sector, demand_change) ==
    [status            |-> "ok",
     coefficient_types |-> coefficient_types,
     all_results       |-> [t \in {coefficient_types[i] : i \in DOMAIN coefficient_types} |->
                               AllEffectsSlot(selected_sector, demand_change, t)]]

----------------------------------------------------------------------------
(* calculate_linkages *)

\* the inline conversion of a sector code: digits are read as a number and written
\* back with one leading zero below 1000
ConvertSectorCode(sector_code) ==
    IF sector_code.k = "str" /\ isdigit(sector_code.s)
    THEN LET sector_int == int(sector_code.s)
         IN  IF sector_int < 1000 THEN PyStr(<<"0">> \o Decimal(sector_int))
             ELSE PyStr(Decimal(sector_int))
    ELSE sector_code

\* Series.mean()
Mean(xs) == FloatDiv(RSum(xs), Rat(Len(xs), 1))

\* a slip: the axes exchanged, the sum of row j where the sum of column j belongs
AxisSwappedSums(m) == [j \in DOMAIN m.columns |-> RSum(m.values[j])]

\* leontief.sum(axis=0): one sum per column
ColumnSums(m) ==
    [j \in DOMAIN m.columns |-> RSum([i \in DOMAIN m.index |-> m.values[i][j]])]

\* leontief.sum(axis=1): one sum per row
RowSums(m) == [i \in DOMAIN m.index |-> RSum(m.values[i])]

\* the dictionary of one sector; backward_linkages is keyed by column, forward_linkages by row
LinkageEntry(code) ==
    LET leontief == coefficients["indirect_prod"]
        backward_linkages == ColumnSums(leontief)
        avg_backward == Mean(backward_linkages)
        forward_linkages == RowSums(leontief)
        avg_forward == Mean(forward_linkages)
        backward == backward_linkages[ColumnIndex(leontief, code)]
        forward == forward_linkages[RowIndex(leontief, code)]
        backward_norm == FloatDiv(backward, avg_backward)
        forward_norm == FloatDiv(forward, avg_forward)
    IN  [sector_code         |-> code,
         sector_name         |-> code_to_product[code],
         backward_linkage    |-> backward,
         forward_linkage     |-> forward,
         backward_normalized |-> backward_norm,
         forward_normalized  |-> forward_norm,
         is_key_sector       |-> RLess(Rat(1, 1), backward_norm) /\ RLess(Rat(1, 1), forward_norm)]

\* calculate_linkages(sector_code)
calculate_linkages_of(sector_code) ==
    LET leontief == coefficients["indirect_prod"]
        code == ConvertSectorCode(sector_code)
    IN  IF code \notin DOMAIN code_to_product THEN Error("Sector not found")
        ELSE IF ~HasColumn(leontief, code) \/ ~HasRow(leontief, code) THEN Error("KeyError")
        ELSE [status |-> "ok", sector |-> LinkageEntry(code)]

\* calculate_linkages(): every column of the matrix that has a product name
calculate_linkages_all ==
    LET leontief == coefficients["indirect_prod"]
        codes == SelectSeq(leontief.columns, LAMBDA code : code \in DOMAIN code_to_product)
    IN  IF \E i \in DOMAIN codes : ~HasRow(leontief, codes[i]) THEN Error("KeyError")
        ELSE [status       |-> "ok",
              sectors      |-> [i \in DOMAIN codes |-> LinkageEntry(codes[i])],
              avg_backward |-> Mean(ColumnSums(leontief)),
              avg_forward  |-> Mean(RowSums(leontief))]

calculate_linkages(sector_code) ==
    IF Truthy(sector_code) THEN calculate_linkages_of(sector_code) ELSE calculate_linkages_all

----------------------------------------------------------------------------
(* calculate_multipliers *)

\* (value_added_coeffs[sector_code] * leontief[sector_code]).sum(): the two columns
\* multiplied row label by row label
WeightedColumnSum(weights, m, code) ==
    LET rows == SelectSeq(weights.index, LAMBDA label : HasRow(m, label))
    IN  RSum([i \in DOMAIN rows |->
                RMul(weights.values[RowIndex(weights, rows[i])][ColumnIndex(weights, code)],
                     m.values[RowIndex(m, rows[i])][ColumnIndex(m, code)])])

\* the sum of the jobcoeff column of the sector's sub-sector, None without one
EmploymentMultiplier(code) ==
    LET job_coeffs == coefficients["jobcoeff"]
        subsector_code == IF code \in DOMAIN basic_to_subsector THEN basic_to_subsector[code] ELSE None
    IN  IF Truthy(subsector_code) /\ HasColumn(job_coeffs, subsector_code)
        THEN ColumnSums(job_coeffs)[ColumnIndex(job_coeffs, subsector_code)]
        ELSE None

calculate_multipliers(sector_code) ==
    LET code == ConvertSectorCode(sector_code)
        leontief == coefficients["indirect_prod"]
        value_added_coeffs == coefficients["value_added"]
    IN  IF code \notin DOMAIN code_to_product THEN Error("Sector not found")
        ELSE IF ~HasColumn(leontief, code) \/ ~HasColumn(value_added_coeffs, code) THEN Error("KeyError")
        ELSE LET employment_multiplier == EmploymentMultiplier(code)
             IN  [status                 |-> "ok",
                  sector_code            |-> code,
                  sector_name            |-> code_to_product[code],
                  output_multiplier      |-> ColumnSums(leontief)[ColumnIndex(leontief, code)],
                  value_added_multiplier |-> WeightedColumnSum(value_added_coeffs, leontief, code),
                  employment_multiplier  |-> employment_multiplier,
                  \* the texts, each given by the number it shows
                  interpretation         |->
                      [output      |-> ColumnSums(leontief)[ColumnIndex(leontief, code)],
                       value_added |-> WeightedColumnSum(value_added_coeffs, leontief, code),
                       employment  |-> IF employment_multiplier \in {None, Zero} THEN Name("N/A")
                                       ELSE employment_multiplier]]

----------------------------------------------------------------------------
(* identify_key_sectors *)

Above(value, threshold) == RLess(threshold, value)

\* a slip: `if` where the code has `elif`, a key sector is listed under backward_only too
KeySectorBucketsOverlapping(sectors, threshold) ==
    [key_sectors   |-> SelectSeq(sectors, LAMBDA x : Above(x.backward_normalized, threshold)
                                                     /\ Above(x.forward_normalized, threshold)),
     backward_only |-> SelectSeq(sectors, LAMBDA x : Above(x.backward_normalized, threshold)),
     forward_only  |-> SelectSeq(sectors, LAMBDA x : ~Above(x.backward_normalized, threshold)
                                                     /\ Above(x.forward_normalized, threshold)),
     weak_linkage  |-> SelectSeq(sectors, LAMBDA x : ~Above(x.backward_normalized, threshold)
                                                     /\ ~Above(x.forward_normalized, threshold))]

\* the if / elif chain over the sectors: four lists, each in the order of the sectors
KeySectorBuckets(sectors, threshold) ==
    [key_sectors   |-> SelectSeq(sectors, LAMBDA x : Above(x.backward_normalized, threshold)
                                                     /\ Above(x.forward_normalized, threshold)),
     backward_only |-> SelectSeq(sectors, LAMBDA x : Above(x.backward_normalized, threshold)
                                                     /\ ~Above(x.forward_normalized, threshold)),
     forward_only  |-> SelectSeq(sectors, LAMBDA x : ~Above(x.backward_normalized, threshold)
                                                     /\ Above(x.forward_normalized, threshold)),
     weak_linkage  |-> SelectSeq(sectors, LAMBDA x : ~Above(x.backward_normalized, threshold)
                                                     /\ ~Above(x.forward_normalized, threshold))]

identify_key_sectors(threshold) ==
    LET all_linkages == calculate_linkages(None)
    IN  IF all_linkages.status = "error" THEN all_linkages
        ELSE LET buckets == KeySectorBuckets(all_linkages.sectors, threshold)
                 key_sectors ==
                     SortDescending(buckets.key_sectors,
                                    [i \in DOMAIN buckets.key_sectors |->
                                        RAdd(buckets.key_sectors[i].backward_normalized,
                                             buckets.key_sectors[i].forward_normalized)])
                 backward_only ==
                     SortDescending(buckets.backward_only,
                                    [i \in DOMAIN buckets.backward_only |->
                                        buckets.backward_only[i].backward_normalized])
                 forward_only ==
                     SortDescending(buckets.forward_only,
                                    [i \in DOMAIN buckets.forward_only |->
                                        buckets.forward_only[i].forward_normalized])
             IN  [status        |-> "ok",
                  key_sectors   |-> key_sectors,
                  backward_only |-> backward_only,
                  forward_only  |-> forward_only,
                  weak_linkage  |-> buckets.weak_linkage,
                  threshold     |-> threshold,
                  summary       |-> [key_sectors_count   |-> Len(key_sectors),
                                     backward_only_count |-> Len(backward_only),
                                     forward_only_count  |-> Len(forward_only),
                                     weak_linkage_count  |-> Len(buckets.weak_linkage)]]

----------------------------------------------------------------------------
(* compare_sectors *)

\* results['impacts'][:n]
Top(n, impacts) == SubSeq(impacts, 1, IF Len(impacts) < n THEN Len(impacts) ELSE n)

\* the entry of one sector: a summary of its result, or the marker of its failure
CompareEntry(sector_code, demand_change, coeff_type) ==
    LET results == calculate_direct_effects(sector_code, demand_change, coeff_type)
    IN  IF results.status = "ok"
        THEN [sector_code          |-> results.target_sector,
              sector_name          |-> results.target_product,
              total_impact         |-> results.total_impact,
              num_affected_sectors |-> results.num_affected_sectors,
              top_5_impacts        |-> Top(5, results.impacts)]
        ELSE [sector_code  |-> sector_code,
              sector_name  |-> "Error",
              total_impact |-> Zero,
              error        |-> results.error]

\* a slip: `continue` in the except branch, the failing sectors left out
ComparisonResultsWithoutFailures(sector_codes, demand_change, coeff_type) ==
    LET succeeding == SelectSeq(sector_codes, LAMBDA sector_code :
                          calculate_direct_effects(sector_code, demand_change, coeff_type).status = "ok")
    IN  [i \in DOMAIN succeeding |-> CompareEntry(succeeding[i], demand_change, coeff_type)]

\* comparison_results before the sort: one entry per element of sector_codes
ComparisonResults(sector_codes, demand_change, coeff_type) ==
    [i \in DOMAIN sector_codes |-> CompareEntry(sector_codes[i], demand_change, coeff_type)]

compare_sectors(sector_codes, demand_change, coeff_type) ==
    LET comparison_results == ComparisonResults(sector_codes, demand_change, coeff_type)
    IN  [status        |-> "ok",
         demand_change |-> demand_change,
         coeff_type    |-> coeff_type,
         sectors       |-> SortDescending(comparison_results,
                                          [i \in DOMAIN comparison_results |->
                                              RAbs(comparison_results[i].total_impact)])]

----------------------------------------------------------------------------
(* sensitivity_analysis *)

\* a slip: the test `demand_change != 0` left out; a floating-point total divided by
\* zero is infinite or not a number
ImpactRatioUnguarded(total_impact, demand_change) ==
    FloatDiv(total_impact, Rat(demand_change, 1000))

\* a slip: the total divided by the size of the shock, its sign lost
ImpactRatioOfMagnitude(total_impact, demand_change) ==
    IF demand_change # 0
    THEN RDiv(total_impact, RDiv(Rat(Abs(demand_change), 1), Rat(1000, 1)))
    ELSE Zero

\* results['total_impact'] / (demand_change / 1000) if demand_change != 0 else 0
ImpactRatio(total_impact, demand_change) ==
    IF demand_change # 0
    THEN RDiv(total_impact, RDiv(Rat(demand_change, 1), Rat(1000, 1)))
    ELSE Zero

Scenario(sector_code, demand_change, coeff_type) ==
    LET results == calculate_direct_effects(sector_code, demand_change, coeff_type)
    IN  [demand_change        |-> demand_change,
         total_impact         |-> results.total_impact,
         num_affected_sectors |-> results.num_affected_sectors,
         impact_ratio         |-> ImpactRatio(results.total_impact, demand_change),
         top_3_sectors        |-> Top(3, results.impacts)]

\* a slip: the scenarios put in ascending order of demand change
ScenariosByDemand(sector_code, demand_changes, coeff_type) ==
    SortDescending([i \in DOMAIN demand_changes |-> Scenario(sector_code, demand_changes[i], coeff_type)],
                   [i \in DOMAIN demand_changes |-> Rat(0 - demand_changes[i], 1)])

\* scenarios after the loop, when no call of the loop has failed
Scenarios(sector_code, demand_changes, coeff_type) ==
    [i \in DOMAIN demand_changes |-> Scenario(sector_code, demand_changes[i], coeff_type)]

\* the first failing calculate_direct_effects call ends the loop with its exception;
\* the final code_to_product[sector_code] fails for an unregistered code (empty list)
sensitivity_analysis(sector_code, demand_changes, coeff_type) ==
    LET failing == {i \in DOMAIN demand_changes :
                       calculate_direct_effects(sector_code, demand_changes[i], coeff_type).status = "error"}
    IN  IF failing # {}
        THEN calculate_direct_effects(sector_code,
                                      demand_changes[CHOOSE i \in failing : \A j \in failing : i <= j],
                                      coeff_type)
        ELSE IF sector_code \notin DOMAIN code_to_product THEN Error("KeyError")
        ELSE [status      |-> "ok",
              sector_code |-> sector_code,
              sector_name |-> code_to_product[sector_code],
              coeff_type  |-> coeff_type,
              scenarios   |-> Scenarios(sector_code, demand_changes, coeff_type)]

----------------------------------------------------------------------------
(* Arguments of the calls *)

TargetSectors ==
    {PyStr(<<"1", "1", "1">>), PyStr(<<"0", "1", "1", "1">>), PyInt(2711),
     PyStr(<<"2", "7", "1", "1">>), PyStr(<<"1", "0", "0", "0">>), PyStr(<<"9", "9", "9", "9">>),
     PyStr(<<"A">>)}
DemandChanges == {500 * k : k \in (0 - MaxDemand)..MaxDemand}
CoeffTypeArgs == BasicCoeffTypes \cup JobCoeffTypes \cup {"employment"}

\* sector_code of calculate_linkages and calculate_multipliers; None asks for all sectors
SectorCodes ==
    {None, PyStr(<<"1", "1", "1">>), PyStr(<<"0", "1", "1", "1">>), PyInt(2711),
     PyStr(<<"2", "7", "1", "1">>), PyStr(<<"1", "0", "0", "0">>), PyStr(<<"1", "1">>),
     PyStr(<<"9", "9", "9", "9">>)}

\* threshold of identify_key_sectors
Thresholds == {Rat(0, 1), Rat(1, 1), Rat(2, 1)}

\* the lists of 0..MaxList elements of S
Lists(S) == UNION {[1..n -> S] : n \in 0..MaxList}
\* sector_codes of compare_sectors: lists of two registered sectors and an unknown one
ComparedSectors ==
    Lists({PyStr(<<"0", "1", "1", "1">>), PyStr(<<"2", "7", "1", "1">>), PyStr(<<"9", "9", "9", "9">>)})
\* coeff_type of compare_sectors and sensitivity_analysis: a basic-coded and an employment matrix
BatchCoeffTypes == {"value_added", "jobcoeff"}

\* sector_code of sensitivity_analysis: a registered sector and an unknown one
AnalyzedSectors == {PyStr(<<"0", "1", "1", "1">>), PyStr(<<"9", "9", "9", "9">>)}

Idle == [op |-> "idle"]
NoResult == [status |-> "none"]

\* the threads that share one analyzer
MaxCallers == 2
Callers == 1..MaxCallers
\* a caller that is not inside a call
IdleCaller == [pc |-> "idle", call |-> Idle, result |-> NoResult, overlapped |-> FALSE]
\* no thread is inside a call and no activation record is live
NoCallers ==
    /\ callers = [c \in Callers |-> IdleCaller]
    /\ frames = [w \in Callers |-> Idle]

\* the analyzer after __init__ / load_data, no operation called yet
Init ==
    \E basicmap \in BasicmapSheets, codemap \in CodemapSheets,
       nbasic \in 2..3, njob \in {1, 3}, shift \in 0..MaxShift :
        /\ coefficients = LoadCoefficients(CoeffSheets(basicmap, nbasic, njob, shift))
        /\ code_to_product = LoadCodeToProduct(basicmap)
        /\ basic_to_subsector = LoadBasicToSubsector(codemap)
        /\ basic_to_code_h = LoadBasicToCodeH(codemap)
        /\ subsector_to_code_h = LoadSubsectorToCodeH(codemap)
        /\ subsector_to_name = LoadSubsectorToName(SubsectormapSheet)
        /\ code_h_to_product_h = LoadCodeHToProductH(codemap)
        /\ call = Idle
        /\ result = NoResult
        /\ NoCallers

\* the analyzer the threads share: loaded from any of the mapping sheets and the
\* full-size coefficient sheets
InitConcurrent ==
    \E basicmap \in BasicmapSheets, codemap \in CodemapSheets :
        /\ coefficients = LoadCoefficients(CoeffSheets(basicmap, 3, 3, 0))
        /\ code_to_product = LoadCodeToProduct(basicmap)
        /\ basic_to_subsector = LoadBasicToSubsector(codemap)
        /\ basic_to_code_h = LoadBasicToCodeH(codemap)
        /\ subsector_to_code_h = LoadSubsectorToCodeH(codemap)
        /\ subsector_to_name = LoadSubsectorToName(SubsectormapSheet)
        /\ code_h_to_product_h = LoadCodeHToProductH(codemap)
        /\ call = Idle
        /\ result = NoResult
        /\ NoCallers

----------------------------------------------------------------------------
(* The calls *)

\* what the method named by the call record c returns on the analyzer as it is
ResultOf(c) ==
    CASE c.op = "calculate_direct_effects" ->
             calculate_direct_effects(c.target_sector, c.demand_change, c.coeff_type)
      [] c.op = "aggregate_to_code_h" -> aggregate_to_code_h(c.results)
      [] c.op = "calculate_effects_by_code_h" ->
             calculate_effects_by_code_h(c.target_sector, c.demand_change, c.coeff_type)
      [] c.op = "calculate_all_effects" -> calculate_all_effects(c.selected_sector, c.demand_change)
      [] c.op = "calculate_linkages" -> calculate_linkages(c.sector_code)
      [] c.op = "calculate_multipliers" -> calculate_multipliers(c.sector_code)
      [] c.op = "identify_key_sectors" -> identify_key_sectors(c.threshold)
      [] c.op = "compare_sectors" -> compare_sectors(c.sector_codes, c.demand_change, c.coeff_type)
      [] c.op = "sensitivity_analysis" ->
             sensitivity_analysis(c.sector_code, c.demand_changes, c.coeff_type)
      [] OTHER -> NoResult

\* calculate_direct_effects as it would be if the lookup of the target registered unknown codes
\* (self.code_to_product.setdefault(target_sector, "Unknown"))
CalculateDirectEffectsRegistering ==
    /\ call = Idle
    /\ \E target_sector \in TargetSectors, demand_change \in DemandChanges, coeff_type \in CoeffTypeArgs :
        /\ call' = [op |-> "calculate_direct_effects", target_sector |-> target_sector,
                    demand_change |-> demand_change, coeff_type |-> coeff_type]
        /\ result' = calculate_direct_effects(target_sector, demand_change, coeff_type)
        /\ code_to_product' =
               [code \in DOMAIN code_to_product \cup {target_sector} |->
                   IF code \in DOMAIN code_to_product THEN code_to_product[code] ELSE "Unknown"]
    /\ UNCHANGED <<coefficients, basic_to_subsector, basic_to_code_h, subsector_to_code_h,
                   subsector_to_name, code_h_to_product_h, concurrent>>

CalculateDirectEffects ==
    /\ call = Idle
    /\ \E target_sector \in TargetSectors, demand_change \in DemandChanges, coeff_type \in CoeffTypeArgs :
        /\ call' = [op |-> "calculate_direct_effects", target_sector |-> target_sector,
                    demand_change |-> demand_change, coeff_type |-> coeff_type]
        /\ result' = calculate_direct_effects(target_sector, demand_change, coeff_type)
    /\ UNCHANGED <<data, concurrent>>

AggregateToCodeH ==
    /\ call.op = "calculate_direct_effects"
    /\ result.status = "ok"
    /\ call' = [op |-> "aggregate_to_code_h", results |-> result]
    /\ result' = aggregate_to_code_h(result)
    /\ UNCHANGED <<data, concurrent>>

CalculateEffectsByCodeH ==
    /\ call = Idle
    /\ \E target_sector \in TargetSectors, demand_change \in DemandChanges, coeff_type \in CoeffTypeArgs :
        /\ call' = [op |-> "calculate_effects_by_code_h", target_sector |-> target_sector,
                    demand_change |-> demand_change, coeff_type |-> coeff_type]
        /\ result' = calculate_effects_by_code_h(target_sector, demand_change, coeff_type)
    /\ UNCHANGED <<data, concurrent>>

CalculateAllEffects ==
    /\ call = Idle
    /\ \E selected_sector \in TargetSectors, demand_change \in DemandChanges :
        /\ call' = [op |-> "calculate_all_effects", selected_sector |-> selected_sector,
                    demand_change |-> demand_change]
        /\ result' = calculate_all_effects(selected_sector, demand_change)
    /\ UNCHANGED <<data, concurrent>>

CalculateLinkages ==
    /\ call = Idle
    /\ \E sector_code \in SectorCodes :
        /\ call' = [op |-> "calculate_linkages", sector_code |-> sector_code]
        /\ result' = calculate_linkages(sector_code)
    /\ UNCHANGED <<data, concurrent>>

CalculateMultipliers ==
    /\ call = Idle
    /\ \E sector_code \in SectorCodes \ {None} :
        /\ call' = [op |-> "calculate_multipliers", sector_code |-> sector_code]
        /\ result' = calculate_multipliers(sector_code)
    /\ UNCHANGED <<data, concurrent>>

IdentifyKeySectors ==
    /\ call = Idle
    /\ \E threshold \in Thresholds :
        /\ call' = [op |-> "identify_key_sectors", threshold |-> threshold]
        /\ result' = identify_key_sectors(threshold)
    /\ UNCHANGED <<data, concurrent>>

CompareSectors ==
    /\ call = Idle
    /\ \E sector_codes \in ComparedSectors, demand_change \in DemandChanges, coeff_type \in BatchCoeffTypes :
        /\ call' = [op |-> "compare_sectors", sector_codes |-> sector_codes,
                    demand_change |-> demand_change, coeff_type |-> coeff_type]
        /\ result' = compare_sectors(sector_codes, demand_change, coeff_type)
    /\ UNCHANGED <<data, concurrent>>

SensitivityAnalysis ==
    /\ call = Idle
    /\ \E sector_code \in AnalyzedSectors, demand_changes \in Lists(DemandChanges),
          coeff_type \in BatchCoeffTypes :
        /\ call' = [op |-> "sensitivity_analysis", sector_code |-> sector_code,
                    demand_changes |-> demand_changes, coeff_type |-> coeff_type]
        /\ result' = sensitivity_analysis(sector_code, demand_changes, coeff_type)
    /\ UNCHANGED <<data, concurrent>>

\* the caller takes the result (or the exception) and the analyzer is ready for the next call
Return ==
    /\ call # Idle
    /\ call' = Idle
    /\ result' = NoResult
    /\ UNCHANGED <<data, concurrent>>

Next ==
    \/ CalculateDirectEffects
    \/ AggregateToCodeH
    \/ CalculateEffectsByCodeH
    \/ CalculateAllEffects
    \/ CalculateLinkages
    \/ CalculateMultipliers
    \/ IdentifyKeySectors
    \/ CompareSectors
    \/ SensitivityAnalysis
    \/ Return

Spec == Init /\ [][Next]_vars

----------------------------------------------------------------------------
(* load_data and its two formatting helpers, followed as calls of their own *)

\* the values of a code cell: texts of digits, blanks, a letter, a point and a sign, and integers
CodeTexts == UNION {[1..n -> {"0", "1", " ", "A", ".", "-"}] : n \in 0..MaxCodeLen}
CodeNumbers == {0, 7, 11, 111, 999, 1000, 2711, 0 - 1, 0 - 111}
RawCodes == {PyStr(chars) : chars \in CodeTexts} \cup {PyInt(i) : i \in CodeNumbers}

\* sheets 'codemap' in which a basic code (111 also written "0111") and a sub-sector
\* recur with different sub-sectors and categories
LoadedCodemapRows ==
    {[Basic |-> basic, Subsector |-> subsector, code_h |-> h, product_h |-> "Agri"] :
        basic \in {PyInt(111), PyStr(<<"0", "1", "1", "1">>), PyInt(2711)},
        subsector \in {PyInt(11), PyInt(271)},
        h \in {PyInt(1), PyInt(2)}}
LoadedCodemaps == UNION {[1..n -> LoadedCodemapRows] : n \in 1..MaxRows}

\* the analyzer inside __init__, the dictionaries still empty
Unloaded ==
    /\ coefficients = <<>>
    /\ code_to_product = <<>>
    /\ basic_to_subsector = <<>>
    /\ basic_to_code_h = <<>>
    /\ subsector_to_code_h = <<>>
    /\ subsector_to_name = <<>>
    /\ code_h_to_product_h = <<>>

\* before load_data reads a workbook, or before one of its helpers formats a cell
InitLoad ==
    /\ Unloaded
    /\ result = NoResult
    /\ NoCallers
    /\ \/ \E codemap \in LoadedCodemaps :
              call = [op |-> "load_data", basicmap |-> SubSeq(BasicmapRows, 1, 2), codemap |-> codemap]
       \/ \E code \in RawCodes : call = [op |-> "format_code", code |-> code]
       \/ \E code \in RawCodes : call = [op |-> "format_subsector_code", code |-> code]

LoadData ==
    /\ call.op = "load_data"
    /\ result = NoResult
    /\ coefficients' = LoadCoefficients(CoeffSheets(call.basicmap, 2, 1, 0))
    /\ code_to_product' = LoadCodeToProduct(call.basicmap)
    /\ basic_to_subsector' = LoadBasicToSubsector(call.codemap)
    /\ basic_to_code_h' = LoadBasicToCodeH(call.codemap)
    /\ subsector_to_code_h' = LoadSubsectorToCodeH(call.codemap)
    /\ subsector_to_name' = LoadSubsectorToName(SubsectormapSheet)
    /\ code_h_to_product_h' = LoadCodeHToProductH(call.codemap)
    /\ result' = [status |-> "ok"]
    /\ UNCHANGED <<call, concurrent>>

FormatCode ==
    /\ call.op = "format_code"
    /\ result = NoResult
    /\ result' = [status |-> "ok", value |-> format_code(call.code)]
    /\ UNCHANGED <<data, call, concurrent>>

FormatSubsectorCode ==
    /\ call.op = "format_subsector_code"
    /\ result = NoResult
    /\ result' = [status |-> "ok", value |-> format_subsector_code(call.code)]
    /\ UNCHANGED <<data, call, concurrent>>

NextLoad ==
    \/ LoadData
    \/ FormatCode
    \/ FormatSubsectorCode

SpecLoad == InitLoad /\ [][NextLoad]_vars

----------------------------------------------------------------------------
(* Several threads calling one analyzer.  A call binds its arguments in an activation
   record of its own, its body reads that record and the analyzer's matrices and
   mappings, and no method writes anything the threads share; the body is one step
   because every read it makes is of data no step changes. *)

\* the calls the threads make: two basic-level analyses (one that fails), a batch
\* comparison and a key-sector ranking
ConcurrentCalls ==
    {[op |-> "calculate_direct_effects", target_sector |-> PyStr(<<"0", "1", "1", "1">>),
      demand_change |-> 500, coeff_type |-> "indirect_prod"],
     [op |-> "calculate_direct_effects", target_sector |-> PyStr(<<"9", "9", "9", "9">>),
      demand_change |-> 500, coeff_type |-> "jobcoeff"],
     [op |-> "compare_sectors",
      sector_codes |-> <<PyStr(<<"2", "7", "1", "1">>), PyStr(<<"0", "1", "1", "1">>)>>,
      demand_change |-> 0 - 500, coeff_type |-> "value_added"],
     [op |-> "identify_key_sectors", threshold |-> Rat(1, 1)]}

\* every call has one activation record for all calls (arguments and scratch values kept
\* in one place, as attributes of the analyzer would be)
SharedWorkspace(caller) == 1

\* the activation record of a caller's call: local variables belong to the call
Workspace(caller) == caller

\* the thread enters a method: its arguments are bound in the call's activation record
Begin(caller) ==
    /\ callers[caller].pc = "idle"
    /\ \E args \in ConcurrentCalls :
        /\ callers' = [callers EXCEPT ![caller] = [pc |-> "running", call |-> args, result |-> NoResult, overlapped |-> FALSE]]
        /\ frames' = [frames EXCEPT ![Workspace(caller)] = args]
    /\ UNCHANGED <<data, call, result>>

\* the body runs on its activation record and the analyzer's data, and returns or raises
Finish(caller) ==
    /\ callers[caller].pc = "running"
    /\ callers' = [callers EXCEPT ![caller] =
                      [pc |-> "done", call |-> @.call, result |-> ResultOf(frames[Workspace(caller)]),
                       overlapped |-> \E other \in Callers \ {caller} : callers[other].pc = "running"]]
    /\ frames' = [frames EXCEPT ![Workspace(caller)] = Idle]
    /\ UNCHANGED <<data, call, result>>

\* the thread takes the result and is free to call again
Retire(caller) ==
    /\ callers[caller].pc = "done"
    /\ callers' = [callers EXCEPT ![caller] = IdleCaller]
    /\ UNCHANGED <<data, call, result, frames>>

NextConcurrent ==
    \E caller \in Callers :
        \/ Begin(caller)
        \/ Finish(caller)
        \/ Retire(caller)

SpecConcurrent == InitConcurrent /\ [][NextConcurrent]_vars

----------------------------------------------------------------------------
(* Properties *)

IsDirectEffectsCall == call.op = "calculate_direct_effects"
Succeeded == result.status = "ok"
Raised == result.status = "error"

\* the column key the claims name for a successful call: the sector for the
\* basic-coded types, its sub-sector for the employment types
ClaimedColumn(sector, coeff_type) ==
    IF coeff_type \in JobCoeffTypes THEN basic_to_subsector[sector] ELSE sector
\* coefficient * demand_change / 1000, exactly
ClaimedImpact(coeff_type, row, col, demand_change) ==
    LET m == coefficients[coeff_type]
        c == m.values[RowIndex(m, row)][ColumnIndex(m, col)]
    IN  Rat(c.num * demand_change, c.den * 1000)

\* C1: calculate_direct_effects normalizes its target before the lookup: the call
\* with a raw target returns what the call with format_code(target) returns (so "111"
\* resolves to sector "0111" and 2711 to "2711" when those are registered).
C1_TargetIsNormalized ==
    IsDirectEffectsCall =>
        result = calculate_direct_effects(format_code(call.target_sector),
                                          call.demand_change, call.coeff_type)

\* C2: a target that is no key of code_to_product ends in the sector-not-found
\* error, whatever the demand change and the coefficient type; no result is returned.
C2_UnknownSectorRaises ==
    (IsDirectEffectsCall /\ call.target_sector \notin DOMAIN code_to_product) =>
        result = Error("Sector not found in data")

C2_Witness ==
    /\ IsDirectEffectsCall
    /\ call.target_sector \notin DOMAIN code_to_product
    /\ call.coeff_type \in DOMAIN coefficients
    /\ Raised

\* C3: for a registered target, a coeff_type that is none of the five loaded types
\* ends in an error; no default type is substituted and no result is returned.
C3_UnknownCoeffTypeRaises ==
    (/\ IsDirectEffectsCall
     /\ call.target_sector \in DOMAIN code_to_product
     /\ call.coeff_type \notin {"indirect_prod", "indirect_import", "value_added",
                                "jobcoeff", "directemploycoeff"}) =>
        result = Error("Coefficient type not available")

C3_Witness ==
    /\ IsDirectEffectsCall
    /\ call.target_sector \in DOMAIN code_to_product
    /\ call.coeff_type = "employment"
    /\ Raised

\* C4: when the code used for the column lookup (the target for the basic-coded
\* types, its sub-sector for the employment types) is no column of the selected
\* matrix, the call ends in an error and returns no result.
C4_MissingColumnRaises ==
    (/\ IsDirectEffectsCall
     /\ call.target_sector \in DOMAIN code_to_product
     /\ call.coeff_type \in DOMAIN coefficients) =>
        /\ (/\ call.coeff_type \in BasicCoeffTypes
            /\ ~HasColumn(coefficients[call.coeff_type], call.target_sector))
           => result = Error("Column for sector not found in coefficient matrix")
        /\ (/\ call.coeff_type \in JobCoeffTypes
            /\ call.target_sector \in DOMAIN basic_to_subsector
            /\ ~HasColumn(coefficients[call.coeff_type], basic_to_subsector[call.target_sector]))
           => result = Error("Sub-sector column not found in coefficient matrix")

C4_Witness ==
    /\ IsDirectEffectsCall
    /\ call.target_sector \in DOMAIN code_to_product
    /\ call.coeff_type \in BasicCoeffTypes
    /\ ~HasColumn(coefficients[call.coeff_type], call.target_sector)
    /\ Raised

\* C5: in a successful result every entry's impact is M[row, col] * demand_change / 1000,
\* row the entry's sector_code and col the sector (basic-coded types) or its
\* sub-sector (employment types); the divisor 1000 is the same for all five types.
C5_ImpactIsScaledCoefficient ==
    (IsDirectEffectsCall /\ Succeeded) =>
        \A i \in DOMAIN result.impacts :
            result.impacts[i].impact =
                ClaimedImpact(call.coeff_type, result.impacts[i].sector_code,
                              ClaimedColumn(call.target_sector, call.coeff_type),
                              call.demand_change)

C5_Witness ==
    /\ IsDirectEffectsCall
    /\ Succeeded
    /\ call.coeff_type \in JobCoeffTypes
    /\ call.demand_change # 0
    /\ \E i \in DOMAIN result.impacts : result.impacts[i].impact.den > 1

\* C6: total_impact is the sum of coefficient * demand_change / 1000 over every row of
\* the fetched column, the rows without a registered display name included.
C6_TotalCoversEveryRow ==
    (IsDirectEffectsCall /\ Succeeded) =>
        LET m == coefficients[call.coeff_type]
        IN  result.total_impact =
                RSum([i \in DOMAIN m.index |->
                        ClaimedImpact(call.coeff_type, m.index[i],
                                      ClaimedColumn(call.target_sector, call.coeff_type),
                                      call.demand_change)])

\* C7: for a sector with a registered sub-sector whose column exists, an employment
\* call succeeds on the column keyed by the sub-sector (never the one keyed by the
\* basic code) and reports subsector_code = basic_to_subsector[sector]; a result of a
\* basic-coded type has no subsector_code field.
C7_EmploymentDispatch ==
    (IsDirectEffectsCall /\ call.target_sector \in DOMAIN code_to_product) =>
        /\ (/\ call.coeff_type \in JobCoeffTypes
            /\ call.target_sector \in DOMAIN basic_to_subsector
            /\ HasColumn(coefficients[call.coeff_type], basic_to_subsector[call.target_sector]))
           => /\ Succeeded
              /\ "subsector_code" \in DOMAIN result
              /\ result.subsector_code = basic_to_subsector[call.target_sector]
              /\ \A i \in DOMAIN result.impacts :
                    result.impacts[i].impact =
                        ClaimedImpact(call.coeff_type, result.impacts[i].sector_code,
                                      basic_to_subsector[call.target_sector], call.demand_change)
        /\ (call.coeff_type \in BasicCoeffTypes /\ Succeeded)
           => "subsector_code" \notin DOMAIN result

\* an employment call on a sector whose own code is a column of the employment matrix too
C7_Witness ==
    /\ IsDirectEffectsCall
    /\ call.coeff_type \in JobCoeffTypes
    /\ call.demand_change # 0
    /\ Succeeded
    /\ HasColumn(coefficients[call.coeff_type], call.target_sector)
    /\ result.subsector_code # call.target_sector

IsAggregateCall == call.op = "aggregate_to_code_h"
\* the mapping the claims name for a result: sub-sector -> code_h for an employment
\* result, basic -> code_h otherwise
ApplicableMapping(results) ==
    IF "subsector_code" \in DOMAIN results THEN subsector_to_code_h ELSE basic_to_code_h

\* C8: the impacts of the aggregate sum to the impacts of those entries of the
\* input whose sector_code has a category in the applicable mapping, whatever the
\* category identifier is (0 and the empty string included).
C8_AggregationConserves ==
    IsAggregateCall =>
        LET mapping == ApplicableMapping(call.results)
            resolved == SelectSeq(call.results.impacts, LAMBDA e : e.sector_code \in DOMAIN mapping)
        IN  RSum([i \in DOMAIN result.impacts |-> result.impacts[i].impact])
              = RSum([i \in DOMAIN resolved |-> resolved[i].impact])

\* C9: every category of the aggregate counts the entries the applicable mapping
\* alone assigns to it: the sub-sector mapping only for an employment result, the
\* basic mapping only otherwise.
C9_MappingByKindOfResult ==
    IsAggregateCall =>
        LET mapping == ApplicableMapping(call.results)
            entries == call.results.impacts
        IN  \A c \in DOMAIN result.impacts :
                result.impacts[c].sector_count =
                    Cardinality({i \in DOMAIN entries :
                                    /\ entries[i].sector_code \in DOMAIN mapping
                                    /\ mapping[entries[i].sector_code] = result.impacts[c].code_h})

\* C10: calculate_all_effects never raises; it returns the five types in the fixed
\* order and one slot per type, None where calculate_direct_effects raises and its
\* result otherwise.
C10_AllEffectsIsolatesFailures ==
    call.op = "calculate_all_effects" =>
        /\ Succeeded
        /\ result.coefficient_types =
              <<"indirect_prod", "indirect_import", "value_added", "jobcoeff", "directemploycoeff">>
        /\ DOMAIN result.all_results = BasicCoeffTypes \cup JobCoeffTypes
        /\ \A t \in BasicCoeffTypes \cup JobCoeffTypes :
              LET r == calculate_direct_effects(call.selected_sector, call.demand_change, t)
              IN  result.all_results[t] = IF r.status = "error" THEN None ELSE r

C10_Witness ==
    /\ call.op = "calculate_all_effects"
    /\ Succeeded
    /\ \E t \in DOMAIN result.all_results : result.all_results[t] = None
    /\ \E t \in DOMAIN result.all_results : result.all_results[t] # None

\* C11: the impacts of a successful calculate_direct_effects call, of any of the five
\* types, are in descending order of absolute impact, and entries of equal absolute
\* impact keep the order their rows have in the coefficient column (a stable sort).
C11_SortedByAbsImpactStable ==
    (IsDirectEffectsCall /\ Succeeded) =>
        LET m == coefficients[call.coeff_type]
            impacts == result.impacts
        IN  \A i, j \in DOMAIN impacts :
                i < j =>
                    /\ ~RLess(RAbs(impacts[i].impact), RAbs(impacts[j].impact))
                    /\ RAbs(impacts[i].impact) = RAbs(impacts[j].impact) =>
                           RowIndex(m, impacts[i].sector_code) < RowIndex(m, impacts[j].sector_code)

\* a result with two entries of opposite sign and equal size, and a larger entry before them
C11_Witness ==
    /\ IsDirectEffectsCall
    /\ Succeeded
    /\ \E i, j, k \in DOMAIN result.impacts :
            /\ k < i /\ i < j
            /\ RLess(RAbs(result.impacts[i].impact), RAbs(result.impacts[k].impact))
            /\ result.impacts[i].impact # result.impacts[j].impact
            /\ RAbs(result.impacts[i].impact) = RAbs(result.impacts[j].impact)

IsLinkagesCall == call.op = "calculate_linkages"
\* the sum of the column / of the row of a sector in a matrix
ColumnTotal(m, code) == RSum([i \in DOMAIN m.index |-> m.values[i][ColumnIndex(m, code)]])
RowTotal(m, code) == RSum([j \in DOMAIN m.columns |-> m.values[RowIndex(m, code)][j]])
\* the mean of all column sums / of all row sums
ColumnTotalsMean(m) ==
    RDiv(RSum([j \in DOMAIN m.columns |-> ColumnTotal(m, m.columns[j])]), Rat(Len(m.columns), 1))
RowTotalsMean(m) ==
    RDiv(RSum([i \in DOMAIN m.index |-> RowTotal(m, m.index[i])]), Rat(Len(m.index), 1))
\* the entry of a sector as the claim describes it
ClaimedLinkages(entry) ==
    LET m == coefficients["indirect_prod"]
        backward == ColumnTotal(m, entry.sector_code)
        forward == RowTotal(m, entry.sector_code)
        backward_norm == RDiv(backward, ColumnTotalsMean(m))
        forward_norm == RDiv(forward, RowTotalsMean(m))
    IN  /\ entry.backward_linkage = backward
        /\ entry.forward_linkage = forward
        /\ entry.backward_normalized = backward_norm
        /\ entry.forward_normalized = forward_norm
        /\ entry.is_key_sector = (RLess(Rat(1, 1), backward_norm) /\ RLess(Rat(1, 1), forward_norm))

\* C13: calculate_linkages reads the matrix indirect_prod only: backward_linkage is the
\* sum of the sector's column, forward_linkage the sum of its row, the normalized
\* values are these divided by the mean of all column sums and of all row sums, and
\* is_key_sector holds exactly when both normalized values exceed 1.0; without an
\* argument it returns this for every column with a registered product name, in
\* column order, together with the two means.
C13_LinkagesAreColumnAndRowSums ==
    IsLinkagesCall =>
        LET m == coefficients["indirect_prod"]
            registered == SelectSeq(m.columns, LAMBDA code : code \in DOMAIN code_to_product)
        IN  IF call.sector_code = None
            THEN /\ Succeeded
                 /\ Len(result.sectors) = Len(registered)
                 /\ \A i \in DOMAIN registered :
                        /\ result.sectors[i].sector_code = registered[i]
                        /\ result.sectors[i].sector_name = code_to_product[registered[i]]
                        /\ ClaimedLinkages(result.sectors[i])
                 /\ result.avg_backward = ColumnTotalsMean(m)
                 /\ result.avg_forward = RowTotalsMean(m)
            ELSE Succeeded => ClaimedLinkages(result.sector)

\* all sectors asked for: a column without product name is left out, and of the
\* sectors returned one is a key sector and one is not
C13_Witness ==
    /\ IsLinkagesCall
    /\ call.sector_code = None
    /\ Succeeded
    /\ Len(result.sectors) < Len(coefficients["indirect_prod"].columns)
    /\ \E i, j \in DOMAIN result.sectors :
            result.sectors[i].is_key_sector /\ ~result.sectors[j].is_key_sector

IsKeySectorsCall == call.op = "identify_key_sectors"
Range(xs) == {xs[i] : i \in DOMAIN xs}

\* C12: the four buckets of identify_key_sectors are pairwise disjoint and together
\* hold exactly the sectors of calculate_linkages(); a sector is in key_sectors iff both
\* normalized linkages exceed the threshold (strictly), in backward_only iff only the
\* backward one does, in forward_only iff only the forward one does, in weak_linkage
\* otherwise; the four counts of the summary are the bucket sizes and add up to the
\* number of sectors.
C12_BucketsPartitionSectors ==
    (IsKeySectorsCall /\ Succeeded) =>
        LET sectors == calculate_linkages(None).sectors
            t == call.threshold
            key == Range(result.key_sectors)
            backward == Range(result.backward_only)
            forward == Range(result.forward_only)
            weak == Range(result.weak_linkage)
        IN  /\ key \cap backward = {} /\ key \cap forward = {} /\ key \cap weak = {}
            /\ backward \cap forward = {} /\ backward \cap weak = {} /\ forward \cap weak = {}
            /\ key \cup backward \cup forward \cup weak = Range(sectors)
            /\ \A x \in Range(sectors) :
                   LET b == RLess(t, x.backward_normalized)
                       f == RLess(t, x.forward_normalized)
                   IN  /\ x \in key <=> (b /\ f)
                       /\ x \in backward <=> (b /\ ~f)
                       /\ x \in forward <=> (~b /\ f)
                       /\ x \in weak <=> (~b /\ ~f)
            /\ result.summary.key_sectors_count = Len(result.key_sectors)
            /\ result.summary.backward_only_count = Len(result.backward_only)
            /\ result.summary.forward_only_count = Len(result.forward_only)
            /\ result.summary.weak_linkage_count = Len(result.weak_linkage)
            /\ result.summary.key_sectors_count + result.summary.backward_only_count
                 + result.summary.forward_only_count + result.summary.weak_linkage_count
               = Len(sectors)

\* three sectors in three different buckets, one of them with a normalized linkage
\* equal to the threshold
C12_Witness ==
    /\ IsKeySectorsCall
    /\ Succeeded
    /\ result.key_sectors # <<>>
    /\ result.backward_only # <<>> \/ result.forward_only # <<>>
    /\ result.weak_linkage # <<>>
    /\ \E i \in DOMAIN result.weak_linkage :
            \/ result.weak_linkage[i].backward_normalized = call.threshold
            \/ result.weak_linkage[i].forward_normalized = call.threshold

IsMultipliersCall == call.op = "calculate_multipliers"

\* C14: calculate_linkages(code) and calculate_multipliers(code) look up the sector
\* format_code(code): a code whose canonical form is registered (a registered code of
\* fewer than three digits, say) is found, and the sector returned is that one.
C14_LookupIsFormatCode ==
    (/\ IsLinkagesCall \/ IsMultipliersCall
     /\ call.sector_code # None
     /\ format_code(call.sector_code) \in DOMAIN code_to_product) =>
        /\ result # Error("Sector not found")
        /\ (IsLinkagesCall /\ Succeeded) => result.sector.sector_code = format_code(call.sector_code)
        /\ (IsMultipliersCall /\ Succeeded) => result.sector_code = format_code(call.sector_code)

\* the three multipliers of a sector as the claim describes them
ClaimedMultipliers(code) ==
    LET leontief == coefficients["indirect_prod"]
        value_added == coefficients["value_added"]
        jobcoeff == coefficients["jobcoeff"]
    IN  /\ result.output_multiplier = ColumnTotal(leontief, code)
        /\ result.value_added_multiplier =
               RSum([i \in DOMAIN leontief.index |->
                       RMul(value_added.values[i][ColumnIndex(value_added, code)],
                            leontief.values[i][ColumnIndex(leontief, code)])])
        /\ result.employment_multiplier =
               IF code \in DOMAIN basic_to_subsector /\ HasColumn(jobcoeff, basic_to_subsector[code])
               THEN ColumnTotal(jobcoeff, basic_to_subsector[code])
               ELSE None

\* C15: for every registered sector with a column in indirect_prod and in value_added,
\* calculate_multipliers returns output_multiplier = the sum of the sector's column of
\* indirect_prod, value_added_multiplier = the sum over the rows of value_added times
\* indirect_prod in that column, and employment_multiplier = the sum of the jobcoeff
\* column of the sector's sub-sector, or None (the call still returning) when the sector
\* has no sub-sector or jobcoeff no such column.
C15_MultipliersOfRegisteredSector ==
    (/\ IsMultipliersCall
     /\ call.sector_code \in DOMAIN code_to_product
     /\ HasColumn(coefficients["indirect_prod"], call.sector_code)
     /\ HasColumn(coefficients["value_added"], call.sector_code)) =>
        /\ Succeeded
        /\ ClaimedMultipliers(call.sector_code)

IsCompareCall == call.op = "compare_sectors"
\* the one-to-one assignments of the positions of a list to the positions of another
Matchings(xs, ys) ==
    {f \in [DOMAIN xs -> DOMAIN ys] : \A i, j \in DOMAIN xs : i # j => f[i] # f[j]}
\* entry is what the claim has compare_sectors report for sector_code
MatchesSector(entry, sector_code) ==
    LET results == calculate_direct_effects(sector_code, call.demand_change, call.coeff_type)
    IN  IF results.status = "ok"
        THEN /\ "error" \notin DOMAIN entry
             /\ entry.total_impact = results.total_impact
             /\ entry.sector_name = results.target_product
        ELSE /\ "error" \in DOMAIN entry
             /\ entry.sector_code = sector_code
             /\ entry.total_impact = Zero

\* C16: compare_sectors never aborts on a failing sector: it returns one entry per
\* element of sector_codes (duplicates included), the error marker with total_impact 0
\* and an error field for an element whose calculate_direct_effects call fails and the
\* total_impact of that call otherwise, all of them in descending order of absolute
\* total_impact.
C16_CompareSectorsKeepsEveryElement ==
    IsCompareCall =>
        /\ Succeeded
        /\ Len(result.sectors) = Len(call.sector_codes)
        /\ \E f \in Matchings(call.sector_codes, result.sectors) :
               \A i \in DOMAIN call.sector_codes : MatchesSector(result.sectors[f[i]], call.sector_codes[i])
        /\ \A i, j \in DOMAIN result.sectors :
               i < j => ~RLess(RAbs(result.sectors[i].total_impact), RAbs(result.sectors[j].total_impact))

\* a failing sector listed first, in the result behind a sector with a negative total_impact
C16_Witness ==
    /\ IsCompareCall
    /\ Len(call.sector_codes) = 2
    /\ call.sector_codes[1] \notin DOMAIN code_to_product
    /\ "error" \in DOMAIN result.sectors[2]
    /\ RLess(result.sectors[1].total_impact, Zero)

IsSensitivityCall == call.op = "sensitivity_analysis"
\* every calculate_direct_effects call of the scenarios succeeds, and there is one
EveryScenarioSucceeds ==
    /\ call.demand_changes # <<>>
    /\ \A i \in DOMAIN call.demand_changes :
           calculate_direct_effects(call.sector_code, call.demand_changes[i], call.coeff_type).status = "ok"

\* C17: in the result of sensitivity_analysis a scenario with demand_change 0 has
\* impact_ratio 0, and a zero in the list does not make the call fail (no division by
\* zero); a scenario with another demand_change has impact_ratio = total_impact /
\* (demand_change / 1000).
C17_ImpactRatioGuardsZero ==
    IsSensitivityCall =>
        /\ EveryScenarioSucceeds => Succeeded
        /\ Succeeded =>
               \A i \in DOMAIN result.scenarios :
                   LET scenario == result.scenarios[i]
                   IN  IF scenario.demand_change = 0
                       THEN scenario.impact_ratio = Zero
                       ELSE scenario.impact_ratio =
                                RDiv(scenario.total_impact, Rat(scenario.demand_change, 1000))

\* a scenario of demand change 0 next to one with a ratio other than 0
C17_Witness ==
    /\ IsSensitivityCall
    /\ Succeeded
    /\ \E i, j \in DOMAIN result.scenarios :
            /\ result.scenarios[i].demand_change = 0
            /\ result.scenarios[j].demand_change # 0
            /\ result.scenarios[j].impact_ratio # Zero

\* C18: sensitivity_analysis returns one scenario per element of demand_changes, in
\* the order of the list and with duplicates kept: scenario i has demand_change =
\* demand_changes[i] and the total_impact of calculate_direct_effects(sector,
\* demand_changes[i], coeff_type).
C18_OneScenarioPerDemandChange ==
    IsSensitivityCall =>
        /\ (call.sector_code \in DOMAIN code_to_product /\ call.demand_changes = <<>>) => Succeeded
        /\ EveryScenarioSucceeds => Succeeded
        /\ Succeeded =>
               /\ Len(result.scenarios) = Len(call.demand_changes)
               /\ \A i \in DOMAIN call.demand_changes :
                      /\ result.scenarios[i].demand_change = call.demand_changes[i]
                      /\ result.scenarios[i].total_impact =
                             calculate_direct_effects(call.sector_code, call.demand_changes[i],
                                                      call.coeff_type).total_impact

\* a list in descending order, and a list with the same demand change twice
C18_Witness ==
    /\ IsSensitivityCall
    /\ Succeeded
    /\ Len(result.scenarios) = 2
    /\ result.scenarios[1].total_impact # Zero
    /\ \/ result.scenarios[1].demand_change > result.scenarios[2].demand_change
       \/ result.scenarios[1].demand_change = result.scenarios[2].demand_change

\* C19: calculate_direct_effects is linear in demand_change: where the call with
\* demand d succeeds, the call with 2 * d succeeds with twice the total_impact and
\* twice the impact of every sector.
C19_ImpactsAreLinear ==
    (IsDirectEffectsCall /\ Succeeded) =>
        LET doubled == calculate_direct_effects(call.target_sector, 2 * call.demand_change,
                                                call.coeff_type)
        IN  /\ doubled.status = "ok"
            /\ doubled.total_impact = RMul(Rat(2, 1), result.total_impact)
            /\ Len(doubled.impacts) = Len(result.impacts)
            /\ \A i \in DOMAIN result.impacts :
                   \E j \in DOMAIN doubled.impacts :
                       /\ doubled.impacts[j].sector_code = result.impacts[i].sector_code
                       /\ doubled.impacts[j].impact = RMul(Rat(2, 1), result.impacts[i].impact)

\* a non-zero demand change with non-zero total and impacts of more than one size
C19_Witness ==
    /\ IsDirectEffectsCall
    /\ Succeeded
    /\ call.demand_change # 0
    /\ result.total_impact # Zero
    /\ \E i, j \in DOMAIN result.impacts :
            RLess(RAbs(result.impacts[j].impact), RAbs(result.impacts[i].impact))

\* the rows calculate_direct_effects reports: all of them for the employment
\* matrices, those with a product name for the others
ReportedRows(coeff_type) ==
    IF coeff_type \in JobCoeffTypes THEN coefficients[coeff_type].index
    ELSE SelectSeq(coefficients[coeff_type].index, LAMBDA code : code \in DOMAIN code_to_product)

\* C20: a demand change of zero is a valid input: the call succeeds where the call
\* with any other demand change does, its total_impact is 0, every impact is 0, and
\* the impacts list still has one entry per reported row.
C20_ZeroDemandGivesZeroImpacts ==
    IsDirectEffectsCall =>
        /\ Succeeded <=> calculate_direct_effects(call.target_sector, 0, call.coeff_type).status = "ok"
        /\ (Succeeded /\ call.demand_change = 0) =>
               /\ result.total_impact = Zero
               /\ \A i \in DOMAIN result.impacts : result.impacts[i].impact = Zero
               /\ Len(result.impacts) = Len(ReportedRows(call.coeff_type))
               /\ \A i \in DOMAIN result.impacts :
                      result.impacts[i].sector_code = ReportedRows(call.coeff_type)[i]

\* zero demand on a column with non-zero coefficients, two rows or more reported
C20_Witness ==
    /\ IsDirectEffectsCall
    /\ Succeeded
    /\ call.demand_change = 0
    /\ Len(result.impacts) >= 2
    /\ \E d \in DemandChanges :
            calculate_direct_effects(call.target_sector, d, call.coeff_type).total_impact # Zero

\* C21: for the two employment types a registered target without an entry in the
\* basic to sub-sector mapping ends calculate_direct_effects in the mapping-not-found
\* error (no result, the basic code is not tried as column key), while the same
\* sector still yields a result for each of the three basic-coded types in which it
\* has a column.
C21_MissingSubsectorMappingRaises ==
    (/\ IsDirectEffectsCall
     /\ call.target_sector \in DOMAIN code_to_product
     /\ call.target_sector \notin DOMAIN basic_to_subsector) =>
        /\ call.coeff_type \in JobCoeffTypes =>
               result = Error("Sub-sector mapping not found for basic sector")
        /\ \A t \in BasicCoeffTypes :
               HasColumn(coefficients[t], call.target_sector) =>
                   calculate_direct_effects(call.target_sector, call.demand_change, t).status = "ok"

\* an employment call for a registered sector without mapping, whose code is a column
\* of the employment matrix and of the basic-coded matrices
C21_Witness ==
    /\ IsDirectEffectsCall
    /\ call.coeff_type \in JobCoeffTypes
    /\ call.target_sector \in DOMAIN code_to_product
    /\ call.target_sector \notin DOMAIN basic_to_subsector
    /\ HasColumn(coefficients[call.coeff_type], call.target_sector)
    /\ HasColumn(coefficients["indirect_prod"], call.target_sector)
    /\ Raised

\* the category the lookup of aggregate_to_code_h finds for entry i of the input, None when it finds none
CategoryOfEntry(i) ==
    LookupCodeH("subsector_code" \in DOMAIN call.results, call.results.impacts[i].sector_code)
CategoriesAreDistinct ==
    \A c, d \in DOMAIN result.impacts : c # d => result.impacts[c].code_h # result.impacts[d].code_h
SectorCountsAreMemberCounts ==
    \A c \in DOMAIN result.impacts :
        result.impacts[c].sector_count =
            Cardinality({i \in DOMAIN call.results.impacts : CategoryOfEntry(i) = result.impacts[c].code_h})
SectorCountsCoverResolvedEntries ==
    RSum([c \in DOMAIN result.impacts |-> Rat(result.impacts[c].sector_count, 1)])
      = Rat(Cardinality({i \in DOMAIN call.results.impacts : CategoryOfEntry(i) # None}), 1)
AggregateTotalsAgree ==
    /\ result.total_impact = RSum([c \in DOMAIN result.impacts |-> result.impacts[c].impact])
    /\ result.num_affected_categories = Len(result.impacts)
CategoriesAreSorted ==
    \A c, d \in DOMAIN result.impacts :
        c < d => ~RLess(RAbs(result.impacts[c].impact), RAbs(result.impacts[d].impact))

\* C26: in the result of aggregate_to_code_h each category appears at most once, its
\* sector_count is the number of input entries that resolved to it, the sector_counts
\* add up to the number of input entries whose category resolved, total_impact is the
\* sum of the category impacts, num_affected_categories the number of categories
\* listed, and the categories are in descending order of absolute impact.
C26_AggregateIsConsistent ==
    IsAggregateCall =>
        /\ CategoriesAreDistinct
        /\ SectorCountsAreMemberCounts
        /\ SectorCountsCoverResolvedEntries
        /\ AggregateTotalsAgree
        /\ CategoriesAreSorted

IsFormatCodeCall == call.op = "format_code"

\* C23: format_code is idempotent on every text and integer; a value whose trimmed
\* text is three digits gets one leading zero, every other value comes back as its
\* trimmed text.
C23_FormatCodeIsIdempotent ==
    (IsFormatCodeCall /\ Succeeded) =>
        LET trimmed == strip(str(call.code))
        IN  /\ format_code(result.value) = result.value
            /\ result.value = IF Len(trimmed) = 3 /\ \A i \in 1..3 : IsDigitChar(trimmed[i])
                              THEN PyStr(<<"0">> \o trimmed)
                              ELSE PyStr(trimmed)

\* three digits with a blank around them, padded
C23_Witness ==
    /\ IsFormatCodeCall
    /\ Succeeded
    /\ call.code.k = "str"
    /\ Len(call.code.s) = 4
    /\ result.value = PyStr(<<"0">> \o strip(call.code.s))

IsFormatSubsectorCodeCall == call.op = "format_subsector_code"
\* the code is a number: an integer, or a text that parses as one
IsNumericCode(code) == code.k = "int" \/ IsFloatText(code.s)
IntegerPart(code) == IF code.k = "int" THEN code.n ELSE IntOfFloatText(code.s)

\* C24: format_subsector_code gives for every numeric input the decimal text of its
\* integer part padded with zeros to three characters, always exactly three
\* characters long; it is idempotent on its own outputs, and gives a non-numeric
\* input back as its trimmed text.
C24_SubsectorCodeHasThreeCharacters ==
    (IsFormatSubsectorCodeCall /\ Succeeded) =>
        /\ format_subsector_code(result.value) = result.value
        /\ IF IsNumericCode(call.code)
           THEN /\ Len(result.value.s) = 3
                /\ result.value = PyStr(Format03d(IntegerPart(call.code)))
           ELSE result.value = PyStr(strip(str(call.code)))

IsLoadDataCall == call.op = "load_data"
\* the keys the rows of the loaded codemap give, and the last row of a key
BasicKeys == [i \in DOMAIN call.codemap |-> format_code(call.codemap[i].Basic)]
SubsectorKeys == [i \in DOMAIN call.codemap |-> format_subsector_code(call.codemap[i].Subsector)]
LastRowOf(keys, i) == CHOOSE j \in DOMAIN keys : keys[j] = keys[i] /\ \A k \in DOMAIN keys : keys[k] = keys[i] => k <= j

\* C27: after load every sub-sector named in a codemap row has one category, the
\* code_h of the last row naming that sub-sector, and every basic code the sub-sector
\* and the code_h of its last row.
C27_LastCodemapRowWins ==
    (IsLoadDataCall /\ Succeeded) =>
        \A i \in DOMAIN call.codemap :
            /\ SubsectorKeys[i] \in DOMAIN subsector_to_code_h
            /\ subsector_to_code_h[SubsectorKeys[i]] = call.codemap[LastRowOf(SubsectorKeys, i)].code_h
            /\ BasicKeys[i] \in DOMAIN basic_to_subsector
            /\ basic_to_subsector[BasicKeys[i]] = SubsectorKeys[LastRowOf(BasicKeys, i)]
            /\ BasicKeys[i] \in DOMAIN basic_to_code_h
            /\ basic_to_code_h[BasicKeys[i]] = call.codemap[LastRowOf(BasicKeys, i)].code_h

\* a sub-sector named by two basic sectors with different categories, and a basic
\* code (once 111, once "0111") in two rows with different sub-sectors
C27_Witness ==
    /\ IsLoadDataCall
    /\ Succeeded
    /\ \E i, j \in DOMAIN call.codemap :
            /\ i < j
            /\ SubsectorKeys[i] = SubsectorKeys[j]
            /\ BasicKeys[i] # BasicKeys[j]
            /\ call.codemap[i].code_h # call.codemap[j].code_h
    /\ \E i, j \in DOMAIN call.codemap :
            /\ i < j
            /\ BasicKeys[i] = BasicKeys[j]
            /\ call.codemap[i].Basic # call.codemap[j].Basic
            /\ SubsectorKeys[i] # SubsectorKeys[j]

\* the list is in descending order of the key
IsDescending(xs, Key(_)) == \A i, j \in DOMAIN xs : i < j => ~RLess(Key(xs[i]), Key(xs[j]))
CombinedLinkage(x) == RAdd(x.backward_normalized, x.forward_normalized)
BackwardLinkage(x) == x.backward_normalized
ForwardLinkage(x) == x.forward_normalized

\* C25: every bucket of identify_key_sectors is sorted: key_sectors by descending
\* backward_normalized + forward_normalized, backward_only by descending
\* backward_normalized, forward_only by descending forward_normalized, and
\* weak_linkage is ordered by linkage strength too (by the combined, the backward or
\* the forward normalized linkage) instead of being left in column order.
C25_EveryBucketIsSorted ==
    (IsKeySectorsCall /\ Succeeded) =>
        /\ IsDescending(result.key_sectors, CombinedLinkage)
        /\ IsDescending(result.backward_only, BackwardLinkage)
        /\ IsDescending(result.forward_only, ForwardLinkage)
        /\ \/ IsDescending(result.weak_linkage, CombinedLinkage)
           \/ IsDescending(result.weak_linkage, BackwardLinkage)
           \/ IsDescending(result.weak_linkage, ForwardLinkage)

\* the rows of the matrix that have an entry in the impacts of the result, each once
EntriesAreExactly(rows) ==
    /\ Len(result.impacts) = Len(rows)
    /\ \A i \in DOMAIN rows : \E j \in DOMAIN result.impacts : result.impacts[j].sector_code = rows[i]
    /\ \A j \in DOMAIN result.impacts : \E i \in DOMAIN rows : result.impacts[j].sector_code = rows[i]

\* C29: in every result of calculate_direct_effects num_affected_sectors is the
\* length of impacts and total_impact the sum of the impacts listed; for the three
\* basic-coded types there is one entry for each row of the matrix with a registered
\* product name and none for another row; for the two employment types there is one
\* entry for every row, named "Sub-sector {code}" when the sub-sector has no name.
C29_ImpactsListReportedRows ==
    (IsDirectEffectsCall /\ Succeeded) =>
        LET m == coefficients[call.coeff_type]
        IN  /\ result.num_affected_sectors = Len(result.impacts)
            /\ result.total_impact = RSum([i \in DOMAIN result.impacts |-> result.impacts[i].impact])
            /\ IF call.coeff_type \in BasicCoeffTypes
               THEN /\ EntriesAreExactly(SelectSeq(m.index, LAMBDA code : code \in DOMAIN code_to_product))
                    /\ \A j \in DOMAIN result.impacts :
                           result.impacts[j].sector_name = <<code_to_product[result.impacts[j].sector_code]>>
               ELSE /\ EntriesAreExactly(m.index)
                    /\ \A j \in DOMAIN result.impacts :
                           result.impacts[j].sector_name =
                               IF result.impacts[j].sector_code \in DOMAIN subsector_to_name
                               THEN <<subsector_to_name[result.impacts[j].sector_code]>>
                               ELSE <<"Sub-sector ">> \o result.impacts[j].sector_code.s

\* an employment result with a row without name, and an impact of zero among its entries
C29_Witness ==
    /\ IsDirectEffectsCall
    /\ Succeeded
    /\ call.coeff_type \in JobCoeffTypes
    /\ call.demand_change # 0
    /\ \E j \in DOMAIN result.impacts : result.impacts[j].sector_code \notin DOMAIN subsector_to_name
    /\ \E j \in DOMAIN result.impacts : result.impacts[j].impact = Zero

\* the sum of the coefficients of the reported rows in the column of the analyzed sector
ReportedCoefficientSum ==
    LET m == coefficients[call.coeff_type]
        col == ClaimedColumn(call.sector_code, call.coeff_type)
        rows == ReportedRows(call.coeff_type)
    IN  RSum([i \in DOMAIN rows |-> m.values[RowIndex(m, rows[i])][ColumnIndex(m, col)]])

C22_OperationsLeaveDataUnchanged ==
    [][data' = data /\ result' = ResultOf(call')]_vars
\* a second operation has run on the analyzer after a first one
C22_Witness == IsAggregateCall /\ Succeeded

\* C28: when threads call one analyzer concurrently, every call that has returned holds
\* what its method gives for its own arguments alone, and no interleaving changes a
\* matrix or a mapping.
C28_ConcurrentCallsAreIndependent ==
    [][/\ data' = data
       /\ \A caller \in Callers :
              callers'[caller].pc = "done"
                  => callers'[caller].result = ResultOf(callers'[caller].call)]_vars
\* a call has returned while another thread's call, with other arguments, was in progress
C28_Witness ==
    \E a, b \in Callers :
        /\ callers[a].pc = "done"
        /\ callers[a].overlapped
        /\ callers[a].result.status = "ok"
        /\ callers[b].pc = "running"
        /\ callers[b].call # callers[a].call

====
